---- MODULE Spec2Model ----
(***************************************************************************)
(* The concept table of the Hecate UI (ui/src/components/ConceptTable.tsx) *)
(* as a state machine: the React state of the component, the searches in   *)
(* flight, the table's change handlers and the filterData effect.          *)
(*                                                                         *)
(* JavaScript values are written as follows.                               *)
(*   - a string is a sequence of symbols ("SNOMED" is <<"SNOMED">>, the    *)
(*     empty string is <<>>); "," is the symbol Array.toString joins with  *)
(*     and String.split(",") cuts at;                                      *)
(*   - an array is a sequence;                                             *)
(*   - an optional value (undefined, null, an absent property) is Absent,  *)
(*     a given one is Present(v).                                          *)
(***************************************************************************)
EXTENDS Integers, Sequences, FiniteSets, TLC

VARIABLES
    searchTerm,     \* props.searchTerm
    promises,       \* the search(q) promises, in the order doSearch made them
    loading,        \* useState loading
    currentPage,    \* useState currentPage
    selected,       \* useState selected: the table's dataSource
    originalData,   \* useState originalData
    filteredInfo,   \* useState filteredInfo: the columns' filteredValue
    currentFilters, \* useState currentFilters
    filterOptions,  \* useState filterOptions
    notifications,  \* how many error notifications were raised
    effectPending,  \* the filterData effect is scheduled and has not run
    mcpRequest,     \* the tools/call request the MCP server is handling
    apiRequest,     \* the REST request the handler forwarded for it
    mcpResponse,    \* what the handler answered: a result or a thrown error
    isAnalyzing,    \* ConceptSets: useState isAnalyzing
    analysisResult, \* ConceptSets: useState analysisResult
    analysis        \* ConceptSets: the analyzeConceptSet promises

\* The state of the search table, of the MCP server and of the concept set
\* page: three programs that share no state.
tableVars == <<searchTerm, promises, loading, currentPage, selected,
               originalData, filteredInfo, currentFilters, filterOptions,
               notifications, effectPending>>
mcpVars == <<mcpRequest, apiRequest, mcpResponse>>
setsVars == <<isAnalyzing, analysisResult, analysis>>

vars == <<searchTerm, promises, loading, currentPage, selected, originalData,
          filteredInfo, currentFilters, filterOptions, notifications,
          effectPending, mcpRequest, apiRequest, mcpResponse, isAnalyzing,
          analysisResult, analysis>>

----------------------------------------------------------------------------
(* Bounds of the model.                                                    *)

\* The rows of a search response, at most.
MaxRows == 2
\* The keys ticked over all the filter menus, at most.
MaxSelected == 2
\* The searches issued, the first one included, at most.
MaxSearches == 2
\* The rows the table shows on a page.
PageSize == 1

\* The rows of the response that is sorted are at most this many.
MaxSortRows == 3

\* The recommendations of one analysis are at most this many.
MaxRecommendations == 2

----------------------------------------------------------------------------
(* Optional values and strings.                                            *)

Absent == <<>>
Present(v) == <<v>>
IsPresent(o) == Len(o) > 0
Get(o) == o[1]

Str(sym) == <<sym>>
Comma == ","

\* arr[0] of a JavaScript array: undefined when the array is empty.
First(arr) == IF Len(arr) > 0 THEN Present(arr[1]) ELSE Absent

\* Array.prototype.includes(v), v possibly undefined, arr an array of strings.
Includes(arr, v) == IsPresent(v) /\ \E i \in 1..Len(arr) : arr[i] = Get(v)

\* Array.prototype.toString: the elements joined with ",".
RECURSIVE Join(_)
Join(arr) ==
    IF Len(arr) = 0 THEN <<>>
    ELSE IF Len(arr) = 1 THEN arr[1]
    ELSE arr[1] \o <<Comma>> \o Join(Tail(arr))

\* String.prototype.split(","): never empty, "" gives [""].
RECURSIVE Split(_)
Split(s) ==
    IF \A i \in 1..Len(s) : s[i] # Comma THEN <<s>>
    ELSE LET k == CHOOSE i \in 1..Len(s) :
                      s[i] = Comma /\ \A j \in 1..(i - 1) : s[j] # Comma
         IN <<SubSeq(s, 1, k - 1)>> \o Split(SubSeq(s, k + 1, Len(s)))

\* String.prototype.includes: needle occurs in hay.
StringIncludes(hay, needle) ==
    \E i \in 0..(Len(hay) - Len(needle)) :
        SubSeq(hay, i + 1, i + Len(needle)) = needle

----------------------------------------------------------------------------
(* ConceptRow and the vocabulary the searches draw from.                   *)

Fields == <<"concept_class_id", "domain_id", "invalid_reason",
            "standard_concept", "vocabulary_id">>
FieldSet == {Fields[i] : i \in 1..Len(Fields)}

\* A leaf: one concept, every filterable field an array of one string.
LeafRow(id, name, cls, dom, inv, std, voc, sc) ==
    [concept_id |-> Present(id), concept_name |-> name,
     concept_class_id |-> <<cls>>, domain_id |-> <<dom>>,
     invalid_reason |-> <<inv>>, standard_concept |-> <<std>>,
     vocabulary_id |-> <<voc>>, score |-> Present(sc), children |-> Absent]

\* The values of a field over the children of a group, child by child.
RECURSIVE ChildValues(_, _)
ChildValues(kids, field) ==
    IF Len(kids) = 0 THEN <<>>
    ELSE kids[1][field] \o ChildValues(Tail(kids), field)

\* A group: no concept_id, the children under one name; each filterable
\* field holds the values of the children.
GroupRow(name, kids) ==
    [concept_id |-> Absent, concept_name |-> name,
     concept_class_id |-> ChildValues(kids, "concept_class_id"),
     domain_id |-> ChildValues(kids, "domain_id"),
     invalid_reason |-> ChildValues(kids, "invalid_reason"),
     standard_concept |-> ChildValues(kids, "standard_concept"),
     vocabulary_id |-> ChildValues(kids, "vocabulary_id"),
     score |-> Absent, children |-> Present(kids)]

Aspirin == "aspirin"
Ibuprofen == "ibuprofen"
Terms == {Aspirin, Ibuprofen}
\* A term whose concepts come with a field of no value and with an empty
\* value.
Heparin == "heparin"

\* The concepts the vocabulary holds under each search term, best match
\* first.
Concepts(q) ==
    IF q = Aspirin THEN
      << LeafRow(1, "Aspirin", Str("Clinical Drug"), Str("Drug"),
                 Str("Valid"), Str("Standard"), Str("RxNorm"), 9),
         LeafRow(2, "Aspirin", <<"Clinical Drug", " Form">>, Str("Drug"),
                 Str("Valid"), Str("Standard"), Str("RxNorm"), 8),
         LeafRow(3, "Aspirin", Str("Clinical Drug"), Str("Drug"),
                 Str("Valid"), Str("Standard"), Str("SNOMED"), 7) >>
    ELSE IF q = Ibuprofen THEN
      << LeafRow(4, "Ibuprofen", Str("Clinical Drug"), Str("Drug"),
                 Str("Valid"), Str("Standard"), Str("RxNorm"), 9) >>
    ELSE
      << LeafRow(5, "Heparin", Str("Clinical Drug"), Str("Drug"),
                 Str("Valid"), Str("Standard"), Str("RxNorm"), 9),
         [LeafRow(6, "Heparin", Str("Clinical Drug"), Str("Drug"),
                  Str("Valid"), Str("Standard"), Str("RxNorm"), 8)
             EXCEPT !.vocabulary_id = <<>>],
         LeafRow(7, "Heparin", <<"Clinical Drug", " Form">>, Str("Drug"),
                 <<>>, Str("Standard"), Str("RxNorm"), 7) >>

ConceptName(q) == Concepts(q)[1].concept_name

\* The ascending index sequences over 1..n.
RECURSIVE Ascending(_)
Ascending(n) ==
    IF n = 0 THEN {<<>>}
    ELSE Ascending(n - 1) \cup {Append(s, n) : s \in Ascending(n - 1)}

\* The rows a response to search(q) may hold: a leaf, or a group of any
\* number of the term's concepts (none and one included), best match first.
RowsOf(q) ==
    {Concepts(q)[i] : i \in 1..Len(Concepts(q))}
    \cup {GroupRow(ConceptName(q), [j \in 1..Len(ix) |-> Concepts(q)[ix[j]]]) :
            ix \in Ascending(Len(Concepts(q)))}

ConceptIds(row) ==
    IF IsPresent(row.children)
    THEN {Get(Get(row.children)[i].concept_id) : i \in 1..Len(Get(row.children))}
    ELSE {Get(row.concept_id)}

\* The place of a row in the ranking: that of its best concept; a group
\* of no concept comes last.
RowRank(row) ==
    IF ConceptIds(row) = {}
    THEN Len(Concepts(Aspirin)) + Len(Concepts(Ibuprofen))
         + Len(Concepts(Heparin)) + 1
    ELSE CHOOSE id \in ConceptIds(row) : \A other \in ConceptIds(row) : id <= other

\* What search(q) may resolve to: at most MaxRows rows in ranked order, no
\* concept in two of them.
MoreRows(d, q) ==
    {row \in RowsOf(q) :
        /\ Len(d) > 0 => RowRank(d[Len(d)]) < RowRank(row)
        /\ \A i \in 1..Len(d) : ConceptIds(d[i]) \cap ConceptIds(row) = {}}
RECURSIVE ResultsUpTo(_, _)
ResultsUpTo(q, n) ==
    IF n = 0 THEN {<<>>}
    ELSE LET shorter == ResultsUpTo(q, n - 1)
         IN shorter \cup UNION {{Append(d, row) : row \in MoreRows(d, q)} :
                                  d \in shorter}
ResultsFor(q) == ResultsUpTo(q, MaxRows)
AspirinResults == ResultsFor(Aspirin)
IbuprofenResults == ResultsFor(Ibuprofen)
HeparinResults == ResultsFor(Heparin)
SearchResults(q) ==
    IF q = Aspirin THEN AspirinResults
    ELSE IF q = Ibuprofen THEN IbuprofenResults
    ELSE HeparinResults

----------------------------------------------------------------------------
(* The filter option index: getFilterSelector and createCountForFilter.    *)

\* The order String.prototype.localeCompare gives the symbols in use.
Alphabet == << " Form", Comma, "Clinical Drug", "Drug", "RxNorm", "SNOMED",
               "Standard", "undefined", "Valid" >>
SymbolRank(c) == CHOOSE i \in 1..Len(Alphabet) : Alphabet[i] = c

\* a.localeCompare(b) < 0
RECURSIVE LocaleLess(_, _)
LocaleLess(a, b) ==
    IF Len(b) = 0 THEN FALSE
    ELSE IF Len(a) = 0 THEN TRUE
    ELSE IF a[1] = b[1] THEN LocaleLess(Tail(a), Tail(b))
    ELSE SymbolRank(a[1]) < SymbolRank(b[1])

\* concepts.sort((a, b) => a.localeCompare(b)): a stable sort; sort leaves
\* the undefined elements at the end without asking the comparator.
SortBefore(x, y) ==
    IF ~IsPresent(x) THEN FALSE
    ELSE IF ~IsPresent(y) THEN TRUE
    ELSE LocaleLess(Get(x), Get(y))

RECURSIVE InsertSorted(_, _)
InsertSorted(sorted, x) ==
    IF Len(sorted) = 0 THEN <<x>>
    ELSE IF SortBefore(x, sorted[1]) THEN <<x>> \o sorted
    ELSE <<sorted[1]>> \o InsertSorted(Tail(sorted), x)

RECURSIVE SortConcepts(_)
SortConcepts(concepts) ==
    IF Len(concepts) = 0 THEN <<>>
    ELSE InsertSorted(SortConcepts(SubSeq(concepts, 1, Len(concepts) - 1)),
                      concepts[Len(concepts)])

\* The property key a value is counted under: acc[undefined] is
\* acc["undefined"].
PropertyKey(v) == IF IsPresent(v) THEN Get(v) ELSE Str("undefined")

\* createCountForFilter: one option per key in order of first occurrence;
\* the text `${key} (${count})` is kept as the pair it is made of.
RECURSIVE createCountForFilter(_)
createCountForFilter(concepts) ==
    IF Len(concepts) = 0 THEN <<>>
    ELSE LET key == PropertyKey(concepts[1])
             same == SelectSeq(concepts, LAMBDA c : PropertyKey(c) = key)
             rest == SelectSeq(concepts, LAMBDA c : PropertyKey(c) # key)
         IN <<[text |-> [key |-> key, count |-> Len(same)], value |-> key]>>
            \o createCountForFilter(rest)

\* The values getFilterSelector pushes for one row.
RowConcepts(field, row) ==
    IF IsPresent(row.children)
    THEN [i \in 1..Len(Get(row.children)) |-> First(Get(row.children)[i][field])]
    ELSE <<First(row[field])>>

RECURSIVE CollectConcepts(_, _)
CollectConcepts(field, rows) ==
    IF Len(rows) = 0 THEN <<>>
    ELSE RowConcepts(field, rows[1]) \o CollectConcepts(field, Tail(rows))

getFilterSelector(field, rows) ==
    createCountForFilter(SortConcepts(CollectConcepts(field, rows)))

\* The object doSearch hands to setFilterOptions.
FilterOptionsOf(r) ==
    [conceptClass |-> getFilterSelector("concept_class_id", r),
     domain |-> getFilterSelector("domain_id", r),
     validity |-> getFilterSelector("invalid_reason", r),
     standard |-> getFilterSelector("standard_concept", r),
     vocabulary |-> getFilterSelector("vocabulary_id", r)]

NoFilterOptions ==
    [conceptClass |-> <<>>, domain |-> <<>>, validity |-> <<>>,
     standard |-> <<>>, vocabulary |-> <<>>]

\* The filterOptions entry each column takes its menu from.
MenuOf(options, field) ==
    CASE field = "concept_class_id" -> options.conceptClass
      [] field = "domain_id" -> options.domain
      [] field = "invalid_reason" -> options.validity
      [] field = "standard_concept" -> options.standard
      [] field = "vocabulary_id" -> options.vocabulary

----------------------------------------------------------------------------
(* The filter state and the projection filterData.                         *)

NoFilters == [f \in FieldSet |-> Absent]

\* filters.<field>?.length is truthy
HasSelection(filters, field) ==
    IsPresent(filters[field]) /\ Len(Get(filters[field])) > 0

\* A faulty variant of the callback below: the vocabulary_id test is left
\* out.
ChildAcceptedSkippingVocabulary(child, filters) ==
    IF HasSelection(filters, "concept_class_id")
       /\ ~Includes(Get(filters.concept_class_id), First(child.concept_class_id))
    THEN FALSE
    ELSE IF HasSelection(filters, "domain_id")
            /\ ~Includes(Get(filters.domain_id), First(child.domain_id))
    THEN FALSE
    ELSE IF HasSelection(filters, "invalid_reason")
            /\ ~Includes(Get(filters.invalid_reason), First(child.invalid_reason))
    THEN FALSE
    ELSE IF HasSelection(filters, "standard_concept")
            /\ ~Includes(Get(filters.standard_concept), First(child.standard_concept))
    THEN FALSE
    ELSE TRUE

\* A faulty variant of the callback below: a child is accepted when one of
\* the fields with a selection accepts it.
ChildAcceptedAnyField(child, filters) ==
    \/ \A f \in FieldSet : ~HasSelection(filters, f)
    \/ \E f \in FieldSet :
           HasSelection(filters, f) /\ Includes(Get(filters[f]), First(child[f]))

\* The callback applyFiltersToChildren hands to children.filter.
ChildAccepted(child, filters) ==
    IF HasSelection(filters, "concept_class_id")
       /\ ~Includes(Get(filters.concept_class_id), First(child.concept_class_id))
    THEN FALSE
    ELSE IF HasSelection(filters, "domain_id")
            /\ ~Includes(Get(filters.domain_id), First(child.domain_id))
    THEN FALSE
    ELSE IF HasSelection(filters, "invalid_reason")
            /\ ~Includes(Get(filters.invalid_reason), First(child.invalid_reason))
    THEN FALSE
    ELSE IF HasSelection(filters, "standard_concept")
            /\ ~Includes(Get(filters.standard_concept), First(child.standard_concept))
    THEN FALSE
    ELSE IF HasSelection(filters, "vocabulary_id")
            /\ ~Includes(Get(filters.vocabulary_id), First(child.vocabulary_id))
    THEN FALSE
    ELSE TRUE

\* A faulty variant of applyFiltersToChildren: the accepted children come
\* out in reverse order.
applyFiltersToChildrenReversed(children, filters) ==
    LET accepted == SelectSeq(children, LAMBDA child : ChildAccepted(child, filters))
    IN [k \in 1..Len(accepted) |-> accepted[Len(accepted) + 1 - k]]

applyFiltersToChildren(children, filters) ==
    SelectSeq(children, LAMBDA child : ChildAccepted(child, filters))

\* Faulty variants of the callback below.  The first tests
\* row.children.length > 0, the second never returns the single accepted
\* child, the third returns { ...row } without the accepted children.
FilterRowCollapsingSingletons(row, filters) ==
    IF IsPresent(row.children) /\ Len(Get(row.children)) > 0
    THEN LET acceptedChildren ==
                 applyFiltersToChildren(Get(row.children), filters)
         IN IF Len(acceptedChildren) = 1
            THEN acceptedChildren[1]
            ELSE [row EXCEPT !.children = Present(acceptedChildren)]
    ELSE row

FilterRowNeverCollapsing(row, filters) ==
    IF IsPresent(row.children) /\ Len(Get(row.children)) > 1
    THEN [row EXCEPT !.children =
              Present(applyFiltersToChildren(Get(row.children), filters))]
    ELSE row

FilterRowKeepingChildren(row, filters) ==
    IF IsPresent(row.children) /\ Len(Get(row.children)) > 1
    THEN LET acceptedChildren ==
                 applyFiltersToChildren(Get(row.children), filters)
         IN IF Len(acceptedChildren) = 1
            THEN acceptedChildren[1]
            ELSE row
    ELSE row

\* The callback filterData hands to originalData.map.
FilterRow(row, filters) ==
    IF IsPresent(row.children) /\ Len(Get(row.children)) > 1
    THEN LET acceptedChildren ==
                 applyFiltersToChildren(Get(row.children), filters)
         IN IF Len(acceptedChildren) = 1
            THEN acceptedChildren[1]
            ELSE [row EXCEPT !.children = Present(acceptedChildren)]
    ELSE row

\* A faulty variant of filterData below: a group left without children is
\* removed.
filterDataDroppingEmpty(data, filters) ==
    SelectSeq([i \in 1..Len(data) |-> FilterRow(data[i], filters)],
              LAMBDA row : ~(IsPresent(row.children)
                             /\ Len(Get(row.children)) = 0))

\* The value filterData hands to setSelected.
filterData(data, filters) ==
    [i \in 1..Len(data) |-> FilterRow(data[i], filters)]

----------------------------------------------------------------------------
(* The cells of the five filterable columns.  A cell is what the render    *)
(* function returns: a string or undefined (TextCell), the array of a      *)
(* leaf's field (ArrayCell), or a row of Tag elements (TagsCell).  A row's *)
(* field is always an array here, so r[field] is truthy.                   *)

TextCell(v) == [kind |-> "text", value |-> v]
ArrayCell(arr) == [kind |-> "array", value |-> arr]
TagsCell(tags) == [kind |-> "tags", value |-> tags]

\* [...new Set(values)]: every value once, in order of first insertion.
RECURSIVE SetOf(_)
SetOf(values) ==
    IF Len(values) = 0 THEN <<>>
    ELSE LET before == SetOf(SubSeq(values, 1, Len(values) - 1))
             last == values[Len(values)]
         IN IF \E i \in 1..Len(before) : before[i] = last
            THEN before
            ELSE Append(before, last)

\* A faulty variant of renderTagsForField: the values are not passed
\* through a Set.
renderTagsForFieldRepeating(filtered, field) ==
    LET values == SelectSeq([i \in 1..Len(filtered) |-> First(filtered[i][field])],
                            LAMBDA v : IsPresent(v) /\ Get(v) # <<>>)
    IN TagsCell([i \in 1..Len(values) |-> Get(values[i])])

\* renderTagsForField: filter(Boolean) drops undefined and "".
renderTagsForField(filtered, field) ==
    LET values == SelectSeq(SetOf([i \in 1..Len(filtered) |->
                                       First(filtered[i][field])]),
                            LAMBDA v : IsPresent(v) /\ Get(v) # <<>>)
    IN TagsCell([i \in 1..Len(values) |-> Get(values[i])])

\* filteredInfo is an object in every state, so !filteredInfo is false.
applyFilterForConceptsWithChildren(children) ==
    applyFiltersToChildren(children, currentFilters)

\* A faulty variant of renderCellValue: the children of the row are
\* rendered without asking the filter state.
renderCellValueUnfiltered(row, field) ==
    IF IsPresent(row.children)
    THEN IF Len(Get(row.children)) = 1
         THEN TextCell(First(Get(row.children)[1][field]))
         ELSE renderTagsForField(Get(row.children), field)
    ELSE ArrayCell(row[field])

\* renderCellValue of ConceptTable.
renderCellValue(row, field) ==
    IF IsPresent(row.children)
    THEN LET filtered == applyFilterForConceptsWithChildren(Get(row.children))
         IN IF Len(filtered) = 1
            THEN TextCell(First(filtered[1][field]))
            ELSE renderTagsForField(filtered, field)
    ELSE ArrayCell(row[field])

\* renderCellValue of ConceptTableCore.
CoreRenderCellValue(row, field) ==
    IF IsPresent(row.children)
    THEN renderTagsForField(Get(row.children), field)
    ELSE TextCell(First(row[field]))

----------------------------------------------------------------------------
(* What the table shows: the columns' onFilter and the id column.          *)

\* A faulty variant of onFilter: the class column compares like the other
\* four.
OnFilterExact(field, value, record) == Includes(record[field], Present(value))

\* column.onFilter(value, record) of the column of `field`.
OnFilter(field, value, record) ==
    IF field = "concept_class_id"
    THEN StringIncludes(Join(record.concept_class_id), value)
    ELSE Includes(record[field], Present(value))

\* The Table keeps a record of its dataSource when, for every column whose
\* filteredValue holds keys, onFilter accepts the record for one of them.
RowShown(record, info) ==
    \A f \in FieldSet :
        HasSelection(info, f) =>
            \E i \in 1..Len(Get(info[f])) : OnFilter(f, Get(info[f])[i], record)

TableRows(rows, info) == SelectSeq(rows, LAMBDA record : RowShown(record, info))

\* The id column: the id of a row that has one, else
\* record.children?.length + " concepts" (the number is what is kept).
IdCell(record) ==
    IF IsPresent(record.concept_id)
    THEN [id |-> record.concept_id, concepts |-> Absent]
    ELSE [id |-> Absent,
          concepts |-> IF IsPresent(record.children)
                       THEN Present(Len(Get(record.children)))
                       ELSE Absent]

\* The pages the pager offers for the rows shown.
PageCount(rows) == IF Len(rows) = 0 THEN 1 ELSE (Len(rows) + PageSize - 1) \div PageSize

----------------------------------------------------------------------------
(* The handlers.                                                           *)

\* filters.<field>?.toString().split(",")
ToFilterState(value) ==
    IF IsPresent(value) THEN Present(Split(Join(Get(value)))) ELSE Absent

\* handleChange(_, filters): the two states it sets.
HandleChangeFilteredInfo(filters) == filters
HandleChangeCurrentFilters(filters) ==
    [concept_class_id |-> ToFilterState(filters.concept_class_id),
     domain_id |-> ToFilterState(filters.domain_id),
     invalid_reason |-> ToFilterState(filters.invalid_reason),
     standard_concept |-> ToFilterState(filters.standard_concept),
     vocabulary_id |-> ToFilterState(filters.vocabulary_id)]

\* A faulty variant of clearFilters: setCurrentFilters({}) is left out.
StaleCurrentFilters == currentFilters

\* clearFilters: every column's filteredValue null, currentFilters {}.
ClearedFilteredInfo == [f \in FieldSet |-> Absent]
ClearedCurrentFilters == [f \in FieldSet |-> Absent]

\* hasActiveFilters: the filter section and its clear button are rendered.
hasActiveFilters == \E f \in FieldSet : HasSelection(filteredInfo, f)

\* The keys a column's filter menu can be confirmed with: none (null), or
\* the values of the options ticked, in menu order.
MenuKeys(menu) ==
    {Absent} \cup
    {Present(LET ix == SelectSeq([i \in 1..Len(menu) |-> i], LAMBDA i : i \in T)
             IN [k \in 1..Len(ix) |-> menu[ix[k]].value]) :
        T \in (SUBSET (1..Len(menu))) \ {{}}}

\* How many keys are ticked over all the columns.
RECURSIVE TickedIn(_, _)
TickedIn(info, n) ==
    IF n = 0 THEN 0
    ELSE TickedIn(info, n - 1)
         + (IF IsPresent(info[Fields[n]]) THEN Len(Get(info[Fields[n]])) ELSE 0)
Ticked(info) == TickedIn(info, Len(Fields))

Pending(i) == promises[i].state = "pending"
Settled == \A i \in 1..Len(promises) : ~Pending(i)

Init ==
    /\ searchTerm = Aspirin
    /\ promises = <<[q |-> Aspirin, state |-> "pending"]>>
    /\ loading = TRUE
    /\ currentPage = 0
    /\ selected = <<>>
    /\ originalData = <<>>
    /\ filteredInfo = NoFilters
    /\ currentFilters = NoFilters
    /\ filterOptions = NoFilterOptions
    /\ notifications = 0
    /\ effectPending = FALSE
    /\ mcpRequest = Absent
    /\ apiRequest = Absent
    /\ mcpResponse = Absent
    /\ isAnalyzing = FALSE
    /\ analysisResult = Absent
    /\ analysis = <<>>

\* The searchTerm prop changes and the effect calls doSearch(searchTerm).
ChangeSearchTerm(q) ==
    /\ ~effectPending
    /\ q # searchTerm
    /\ Len(promises) < MaxSearches
    /\ searchTerm' = q
    /\ promises' = Append(promises, [q |-> q, state |-> "pending"])
    /\ loading' = TRUE
    /\ UNCHANGED <<currentPage, selected, originalData, filteredInfo,
                   currentFilters, filterOptions, notifications, effectPending>>
    /\ UNCHANGED <<mcpVars, setsVars>>

\* search(q).then((r) => ...): the promise of search i is fulfilled with r.
SearchFulfilled(i, r) ==
    /\ ~effectPending
    /\ Pending(i)
    /\ promises' = [promises EXCEPT ![i].state = "fulfilled"]
    /\ loading' = FALSE
    /\ currentPage' = 1
    /\ filterOptions' = FilterOptionsOf(r)
    /\ selected' = r
    /\ originalData' = r
    /\ effectPending' = TRUE
    /\ UNCHANGED <<searchTerm, filteredInfo, currentFilters, notifications>>
    /\ UNCHANGED <<mcpVars, setsVars>>

\* A faulty variant of the callback below: the rows are emptied.
SearchRejectedClearing(i) ==
    /\ ~effectPending
    /\ Pending(i)
    /\ promises' = [promises EXCEPT ![i].state = "rejected"]
    /\ notifications' = notifications + 1
    /\ loading' = FALSE
    /\ selected' = <<>>
    /\ originalData' = <<>>
    /\ effectPending' = TRUE
    /\ UNCHANGED <<searchTerm, currentPage, filteredInfo, currentFilters,
                   filterOptions>>
    /\ UNCHANGED <<mcpVars, setsVars>>

\* search(q).catch(() => ...): the promise of search i is rejected.
SearchRejected(i) ==
    /\ ~effectPending
    /\ Pending(i)
    /\ promises' = [promises EXCEPT ![i].state = "rejected"]
    /\ notifications' = notifications + 1
    /\ loading' = FALSE
    /\ UNCHANGED <<searchTerm, currentPage, selected, originalData,
                   filteredInfo, currentFilters, filterOptions, effectPending>>
    /\ UNCHANGED <<mcpVars, setsVars>>

\* A faulty variant of FilterChange below: the Table does not call the
\* pager's onChange when a filter is confirmed.
FilterChangeKeepingPage(field, keys) ==
    /\ ~effectPending
    /\ keys # filteredInfo[field]
    /\ Ticked([filteredInfo EXCEPT ![field] = keys]) <= MaxSelected
    /\ filteredInfo' =
           HandleChangeFilteredInfo([filteredInfo EXCEPT ![field] = keys])
    /\ currentFilters' =
           HandleChangeCurrentFilters([filteredInfo EXCEPT ![field] = keys])
    /\ effectPending' = TRUE
    /\ UNCHANGED <<searchTerm, promises, loading, currentPage, selected,
                   originalData, filterOptions, notifications>>
    /\ UNCHANGED <<mcpVars, setsVars>>

\* The filter menu of the column of `field` is confirmed with new keys: the
\* Table calls the pager's onChange with page 1 and then onChange =
\* handleChange with the filters of all the columns.
FilterChange(field, keys) ==
    /\ ~effectPending
    /\ keys # filteredInfo[field]
    /\ Ticked([filteredInfo EXCEPT ![field] = keys]) <= MaxSelected
    /\ currentPage' = 1
    /\ filteredInfo' =
           HandleChangeFilteredInfo([filteredInfo EXCEPT ![field] = keys])
    /\ currentFilters' =
           HandleChangeCurrentFilters([filteredInfo EXCEPT ![field] = keys])
    /\ effectPending' = TRUE
    /\ UNCHANGED <<searchTerm, promises, loading, selected, originalData,
                   filterOptions, notifications>>
    /\ UNCHANGED <<mcpVars, setsVars>>

\* A page of the pager is clicked: the pager's onChange sets currentPage and
\* the Table calls onChange = handleChange with the filters as they are.
PageChange(page) ==
    /\ ~effectPending
    /\ page \in 1..PageCount(TableRows(selected, filteredInfo))
    /\ page # currentPage
    /\ currentPage' = page
    /\ filteredInfo' = HandleChangeFilteredInfo(filteredInfo)
    /\ currentFilters' = HandleChangeCurrentFilters(filteredInfo)
    /\ effectPending' = TRUE
    /\ UNCHANGED <<searchTerm, promises, loading, selected, originalData,
                   filterOptions, notifications>>
    /\ UNCHANGED <<mcpVars, setsVars>>

\* The sorter of the name or of the score column is clicked: the Table
\* calls onChange = handleChange with the filters as they are; the pager's
\* onChange is not called.
SortChange ==
    /\ ~effectPending
    /\ filteredInfo' = HandleChangeFilteredInfo(filteredInfo)
    /\ currentFilters' = HandleChangeCurrentFilters(filteredInfo)
    /\ effectPending' = TRUE
    /\ UNCHANGED <<searchTerm, promises, loading, currentPage, selected,
                   originalData, filterOptions, notifications>>
    /\ UNCHANGED <<mcpVars, setsVars>>

\* The "clear filters" button: clearFilters(), then resetToOriginalData().
modifiedClearFilters ==
    /\ ~effectPending
    /\ hasActiveFilters
    /\ filteredInfo' = ClearedFilteredInfo
    /\ currentFilters' = ClearedCurrentFilters
    /\ selected' = originalData
    /\ effectPending' = TRUE
    /\ UNCHANGED <<searchTerm, promises, loading, currentPage, originalData,
                   filterOptions, notifications>>
    /\ UNCHANGED <<mcpVars, setsVars>>

\* A faulty variant of the effect below: filterData writes the filtered rows
\* into originalData as well.
FilterDataEffectInPlace ==
    /\ effectPending
    /\ selected' = filterData(originalData, currentFilters)
    /\ originalData' = filterData(originalData, currentFilters)
    /\ effectPending' = FALSE
    /\ UNCHANGED <<searchTerm, promises, loading, currentPage,
                   filteredInfo, currentFilters, filterOptions, notifications>>
    /\ UNCHANGED <<mcpVars, setsVars>>

\* A faulty variant of the effect below: the filter options are computed
\* again from the filtered rows.
FilterDataEffectReindexing ==
    /\ effectPending
    /\ selected' = filterData(originalData, currentFilters)
    /\ filterOptions' = FilterOptionsOf(filterData(originalData, currentFilters))
    /\ effectPending' = FALSE
    /\ UNCHANGED <<searchTerm, promises, loading, currentPage, originalData,
                   filteredInfo, currentFilters, notifications>>
    /\ UNCHANGED <<mcpVars, setsVars>>

\* A faulty variant of the effect below: filterData maps the rows of
\* selected, the view it made before.
FilterDataEffectIncremental ==
    /\ effectPending
    /\ selected' = filterData(selected, currentFilters)
    /\ effectPending' = FALSE
    /\ UNCHANGED <<searchTerm, promises, loading, currentPage, originalData,
                   filteredInfo, currentFilters, filterOptions, notifications>>
    /\ UNCHANGED <<mcpVars, setsVars>>

\* useEffect(() => { filterData(); }, [filterData]) runs after a render in
\* which originalData or currentFilters was set.
FilterDataEffect ==
    /\ effectPending
    /\ selected' = filterData(originalData, currentFilters)
    /\ effectPending' = FALSE
    /\ UNCHANGED <<searchTerm, promises, loading, currentPage, originalData,
                   filteredInfo, currentFilters, filterOptions, notifications>>
    /\ UNCHANGED <<mcpVars, setsVars>>

Next ==
    \/ \E q \in Terms : ChangeSearchTerm(q)
    \/ \E i \in 1..Len(promises) :
           \E r \in SearchResults(promises[i].q) : SearchFulfilled(i, r)
    \/ \E i \in 1..Len(promises) : SearchRejected(i)
    \/ \E field \in FieldSet :
           \E keys \in MenuKeys(MenuOf(filterOptions, field)) :
               FilterChange(field, keys)
    \/ \E page \in 1..MaxRows : PageChange(page)
    \/ SortChange
    \/ modifiedClearFilters
    \/ FilterDataEffect

Spec == Init /\ [][Next]_vars

\* The table mounted on a term whose concepts lack values: one search, then
\* filter changes.
InitMalformed ==
    /\ searchTerm = Heparin
    /\ promises = <<[q |-> Heparin, state |-> "pending"]>>
    /\ loading = TRUE
    /\ currentPage = 0
    /\ selected = <<>>
    /\ originalData = <<>>
    /\ filteredInfo = NoFilters
    /\ currentFilters = NoFilters
    /\ filterOptions = NoFilterOptions
    /\ notifications = 0
    /\ effectPending = FALSE
    /\ mcpRequest = Absent
    /\ apiRequest = Absent
    /\ mcpResponse = Absent
    /\ isAnalyzing = FALSE
    /\ analysisResult = Absent
    /\ analysis = <<>>

NextMalformed ==
    \/ \E r \in SearchResults(promises[1].q) : SearchFulfilled(1, r)
    \/ \E field \in FieldSet :
           \E keys \in MenuKeys(MenuOf(filterOptions, field)) :
               FilterChange(field, keys)
    \/ FilterDataEffect

SpecMalformed == InitMalformed /\ [][NextMalformed]_vars

\* handleChange as a function of its filters argument, of type
\* Record<string, FilterValue | null>: per column null, an empty list or a
\* list of keys.
FiltersArguments ==
    {[f \in FieldSet |-> IF f = "vocabulary_id" THEN voc ELSE
                         IF f \in empty THEN Present(<<>>) ELSE Absent] :
        voc \in {Absent, Present(<<>>), Present(<<Str("RxNorm")>>),
                 Present(<<Str("RxNorm"), Str("SNOMED")>>)},
        empty \in SUBSET (FieldSet \ {"vocabulary_id"})}

handleChange(filters) ==
    /\ ~effectPending
    /\ Len(originalData) > 0
    /\ filteredInfo' = HandleChangeFilteredInfo(filters)
    /\ currentFilters' = HandleChangeCurrentFilters(filters)
    /\ effectPending' = TRUE
    /\ UNCHANGED <<searchTerm, promises, loading, currentPage, selected,
                   originalData, filterOptions, notifications>>
    /\ UNCHANGED <<mcpVars, setsVars>>

NextHandleChange ==
    \/ \E r \in SearchResults(promises[1].q) : SearchFulfilled(1, r)
    \/ \E filters \in FiltersArguments : handleChange(filters)
    \/ FilterDataEffect

SpecHandleChange == Init /\ [][NextHandleChange]_vars

\* The sorter of the score column, a.score - b.score: NaN (Absent) when a
\* row has no score.
scoreSorter(a, b) ==
    IF IsPresent(a.score) /\ IsPresent(b.score)
    THEN Present(Get(a.score) - Get(b.score))
    ELSE Absent

\* The comparator as Array.prototype.sort reads it: NaN counts as +0.
SortCompare(a, b) ==
    IF IsPresent(scoreSorter(a, b)) THEN Get(scoreSorter(a, b)) ELSE 0

\* The table with a response of up to MaxSortRows rows, sorted and paged.
NextSort ==
    \/ \E r \in ResultsUpTo(promises[1].q, MaxSortRows) : SearchFulfilled(1, r)
    \/ SortChange
    \/ \E page \in 1..MaxSortRows : PageChange(page)
    \/ FilterDataEffect

SpecSort == Init /\ [][NextSort]_vars

----------------------------------------------------------------------------
(* The MCP server (src/mcp/src/index.ts).  A JSON value is undefined       *)
(* (Absent), a string, of which the length is kept, or a number, of which  *)
(* the value and whether it is whole are kept (v + 1/2 when it is not).    *)
(* The server keeps no state between calls: one call is followed from the  *)
(* request to the answer.                                                  *)

Text(n) == Present([t |-> "string", len |-> n])
Number(v) == Present([t |-> "number", v |-> v, int |-> TRUE])
Fraction(v) == Present([t |-> "number", v |-> v, int |-> FALSE])

\* z.string().min(lo).max(hi)
zString(x, lo, hi) ==
    /\ IsPresent(x)
    /\ Get(x).t = "string"
    /\ Get(x).len >= lo
    /\ Get(x).len <= hi

\* z.string().optional()
zOptionalString(x) == IsPresent(x) => Get(x).t = "string"

\* z.number().int().positive()
zPositiveInt(x) ==
    /\ IsPresent(x)
    /\ Get(x).t = "number"
    /\ Get(x).int
    /\ Get(x).v > 0

\* z.number().int().min(lo).max(hi).optional()
zOptionalInt(x, lo, hi) ==
    IsPresent(x) =>
        /\ Get(x).t = "number"
        /\ Get(x).int
        /\ Get(x).v >= lo
        /\ Get(x).v <= hi

\* The schemas: whether parse(args) returns; it throws a ZodError otherwise.
\* z.object() does not accept undefined arguments.
SearchInputSchema(args) ==
    /\ IsPresent(args)
    /\ zString(Get(args).query, 1, 500)
    /\ zOptionalString(Get(args).vocabulary_id)
    /\ zOptionalString(Get(args).standard_concept)
    /\ zOptionalString(Get(args).domain_id)
    /\ zOptionalString(Get(args).concept_class_id)
    /\ zOptionalInt(Get(args).limit, 1, 150)

ConceptIdInputSchema(args) ==
    /\ IsPresent(args)
    /\ zPositiveInt(Get(args).id)

AutocompleteInputSchema(args) ==
    /\ IsPresent(args)
    /\ zString(Get(args).query, 1, 100)

ExpandConceptInputSchema(args) ==
    /\ IsPresent(args)
    /\ zPositiveInt(Get(args).id)
    /\ zOptionalInt(Get(args).childLevels, 0, 10)
    /\ zOptionalInt(Get(args).parentLevels, 0, 10)

\* The tools the ListTools handler returns, by name.
ListedTools ==
    <<"search_concepts", "get_concept_by_id", "get_concept_relationships",
      "get_concept_phoebe", "get_concept_definition",
      "expand_concept_hierarchy">>

\* A faulty variant of Default below: `x || d`, which replaces 0 as well.
DefaultWhenFalsy(x, d) == IF IsPresent(x) /\ Get(x).v # 0 THEN Get(x).v ELSE d

\* `x = d` in a destructuring pattern: d when x is undefined.
Default(x, d) == IF IsPresent(x) THEN Get(x).v ELSE d

\* What the handler throws.
McpError(code) == [kind |-> "error", mcp |-> TRUE, code |-> code]

\* What the handler returns: content of one text.
ToolResult == [kind |-> "result", mcp |-> TRUE, code |-> "none"]

\* The REST request a call is forwarded as.
ApiCall(op, id, childLevels, parentLevels, limit) ==
    [op |-> op, id |-> id, childLevels |-> childLevels,
     parentLevels |-> parentLevels, limit |-> limit]

\* The switch of the CallTool handler up to the await: the REST request
\* (forward), or the error thrown before any is made.
Dispatch(name, args) ==
    CASE name = "search_concepts" ->
             IF SearchInputSchema(args)
             THEN [forward |-> Present(ApiCall("search", Absent, Absent, Absent,
                                  Present(Default(Get(args).limit, 25)))),
                   error |-> Absent]
             ELSE [forward |-> Absent, error |-> Present(McpError("InvalidParams"))]
      [] name \in {"get_concept_by_id", "get_concept_relationships",
                   "get_concept_phoebe", "get_concept_definition"} ->
             IF ConceptIdInputSchema(args)
             THEN [forward |-> Present(ApiCall(name, Present(Get(Get(args).id).v),
                                               Absent, Absent, Absent)),
                   error |-> Absent]
             ELSE [forward |-> Absent, error |-> Present(McpError("InvalidParams"))]
      [] name = "expand_concept_hierarchy" ->
             IF ExpandConceptInputSchema(args)
             THEN [forward |-> Present(ApiCall("expand",
                                  Present(Get(Get(args).id).v),
                                  Present(Default(Get(args).childLevels, 5)),
                                  Present(Default(Get(args).parentLevels, 0)),
                                  Absent)),
                   error |-> Absent]
             ELSE [forward |-> Absent, error |-> Present(McpError("InvalidParams"))]
      [] OTHER ->
             [forward |-> Absent, error |-> Present(McpError("MethodNotFound"))]

\* The names and arguments calls are made with.
ToolNames ==
    {ListedTools[i] : i \in 1..Len(ListedTools)}
    \cup {"autocomplete_concepts", "delete_concept"}

NoArgs ==
    [query |-> Absent, vocabulary_id |-> Absent, standard_concept |-> Absent,
     domain_id |-> Absent, concept_class_id |-> Absent, limit |-> Absent,
     id |-> Absent, childLevels |-> Absent, parentLevels |-> Absent]

Queries == {Absent, Text(0), Text(1), Text(100), Text(101), Text(500),
            Text(501), Number(1)}
Limits == {Absent, Number(0), Number(1), Number(150), Number(151), Fraction(1)}
Strings == {Absent, Text(0), Text(6), Number(1)}
Ids == {Absent, Number(-1), Number(0), Number(1), Fraction(1), Text(1)}
Levels == {Absent, Number(-1), Number(0), Number(5), Number(10), Number(11),
           Fraction(1)}

Arguments ==
    {Absent}
    \cup {Present([NoArgs EXCEPT !.query = q, !.limit = l, !.vocabulary_id = v,
                                 !.standard_concept = c]) :
              q \in Queries, l \in Limits, v \in Strings, c \in Strings}
    \cup {Present([NoArgs EXCEPT !.id = i, !.childLevels = c, !.parentLevels = p]) :
              i \in Ids, c \in Levels, p \in Levels}

\* No request is being handled.
Idle == ~IsPresent(mcpRequest)

\* The handler is waiting for the REST API.
Awaiting == IsPresent(apiRequest) /\ ~IsPresent(mcpResponse)

\* tools/list.
ListTools ==
    /\ Idle
    /\ mcpRequest' = Present([method |-> "tools/list", name |-> "", args |-> Absent])
    /\ apiRequest' = Absent
    /\ mcpResponse' = Present([kind |-> "tools", mcp |-> TRUE, code |-> "none"])
    /\ UNCHANGED <<tableVars, setsVars>>

\* tools/call, to the await of the api client or to the throw before it.
CallTool(name, args) ==
    /\ Idle
    /\ mcpRequest' = Present([method |-> "tools/call", name |-> name, args |-> args])
    /\ apiRequest' = Dispatch(name, args).forward
    /\ mcpResponse' = Dispatch(name, args).error
    /\ UNCHANGED <<tableVars, setsVars>>

\* The REST API answers with status 2xx.  The client reads response.data[0]
\* for a concept and response.data.concepts[0] for a hierarchy: a body
\* without them is a TypeError, caught as any other exception.
ApiResolves(body) ==
    /\ Awaiting
    /\ mcpResponse' =
           IF body = "malformed"
              /\ Get(apiRequest).op \in {"get_concept_by_id", "expand"}
           THEN Present(McpError("InternalError"))
           ELSE Present(ToolResult)
    /\ UNCHANGED <<mcpRequest, apiRequest, tableVars, setsVars>>

\* A faulty variant of ApiRejects below: the error of the client is thrown
\* as it is.
ApiRejectsRethrowing(withResponse) ==
    /\ Awaiting
    /\ mcpResponse' = Present([kind |-> "error", mcp |-> FALSE,
                               code |-> IF withResponse THEN "http" ELSE "network"])
    /\ UNCHANGED <<mcpRequest, apiRequest, tableVars, setsVars>>

\* The REST API answers with another status (the error has a response), or
\* does not answer within the timeout (it has none).
ApiRejects(withResponse) ==
    /\ Awaiting
    /\ mcpResponse' = Present(McpError("InternalError"))
    /\ UNCHANGED <<mcpRequest, apiRequest, tableVars, setsVars>>

\* The answer, result or error, is written to the transport: the request
\* is done with.
SendResponse ==
    /\ IsPresent(mcpResponse)
    /\ mcpRequest' = Absent
    /\ apiRequest' = Absent
    /\ mcpResponse' = Absent
    /\ UNCHANGED <<tableVars, setsVars>>

NextMcp ==
    \/ ListTools
    \/ \E name \in ToolNames : \E args \in Arguments : CallTool(name, args)
    \/ \E body \in {"data", "malformed"} : ApiResolves(body)
    \/ \E withResponse \in BOOLEAN : ApiRejects(withResponse)
    \/ SendResponse

SpecMcp == Init /\ [][NextMcp]_vars

----------------------------------------------------------------------------
(* The concept set page (ConceptSets.tsx) and the table of recommendations *)
(* (ConceptRecommendations, config/api.ts).                                *)

\* service/search: the names of the abbreviations.
expandStandardConceptAbbreviation(abbreviation) ==
    CASE abbreviation = Present("S") -> "Standard"
      [] abbreviation = Present("C") -> "Classification"
      [] OTHER -> "Non-standard"

expandInvalidReasonAbbreviation(abbreviation) ==
    CASE abbreviation = Present("U") -> "Upgraded"
      [] abbreviation = Present("D") -> "Deleted"
      [] OTHER -> "Valid"

\* A RecommendedConcept; invalid_reason is a string or null.
RecommendedConcept(id, voc, std, inv, sc) ==
    [concept_id |-> id, concept_name |-> "Aspirin", vocabulary_id |-> voc,
     domain_id |-> "Drug", concept_class_id |-> "Clinical Drug",
     standard_concept |-> std, invalid_reason |-> inv, similarity_score |-> sc]

\* A faulty variant of transformedData below: concepts that are not valid
\* are left out.
transformedDataValidOnly(recommendations) ==
    LET valid == SelectSeq(recommendations,
                           LAMBDA rec : ~IsPresent(rec.invalid_reason))
    IN [i \in 1..Len(valid) |->
            LeafRow(valid[i].concept_id, valid[i].concept_name,
                    Str(valid[i].concept_class_id), Str(valid[i].domain_id),
                    Str("Valid"),
                    Str(expandStandardConceptAbbreviation(
                            Present(valid[i].standard_concept))),
                    Str(valid[i].vocabulary_id), valid[i].similarity_score)]

\* transformedData: recommendations.recommendations.map(...);
\* rec.invalid_reason || undefined is undefined for null and for "".
transformedData(recommendations) ==
    [i \in 1..Len(recommendations) |->
        LET rec == recommendations[i]
        IN LeafRow(rec.concept_id, rec.concept_name,
                   Str(rec.concept_class_id), Str(rec.domain_id),
                   Str(expandInvalidReasonAbbreviation(
                           IF IsPresent(rec.invalid_reason)
                              /\ Get(rec.invalid_reason) # ""
                           THEN rec.invalid_reason ELSE Absent)),
                   Str(expandStandardConceptAbbreviation(
                           Present(rec.standard_concept))),
                   Str(rec.vocabulary_id), rec.similarity_score)]

\* The recommended concepts a response is made of, and the responses of
\* POST /conceptsets/analyze: an AnalysisResult, with recommendations or
\* without.
RecommendedConcepts ==
    { RecommendedConcept(11, "RxNorm", "S", Absent, 9),
      RecommendedConcept(12, "SNOMED", "C", Present("D"), 8),
      RecommendedConcept(13, "RxNorm", "", Present(""), 8) }

RECURSIVE RecommendationsUpTo(_)
RecommendationsUpTo(n) ==
    IF n = 0 THEN {<<>>}
    ELSE RecommendationsUpTo(n - 1)
         \cup {Append(recs, rec) : recs \in {r \in RecommendationsUpTo(n - 1) :
                                                Len(r) = n - 1},
                                   rec \in RecommendedConcepts}

AnalysisResults ==
    {[valid |-> v, errors |-> e, warnings |-> w, recommendations |-> r] :
        v \in BOOLEAN, e \in {<<>>, <<"Concept not found">>},
        w \in {<<>>, <<"Concept is not standard">>},
        r \in {Absent} \cup {Present(recs) :
                                recs \in RecommendationsUpTo(MaxRecommendations)}}

\* The result handleAnalyze makes of a rejection.
NetworkError ==
    [valid |-> FALSE, errors |-> <<"Network error">>, warnings |-> <<>>,
     recommendations |-> Absent]

\* The "Analyze Concept Set" button is clicked, with a concept set in the
\* text area; the button takes no click while loading={isAnalyzing}.
handleAnalyze ==
    /\ ~isAnalyzing
    /\ isAnalyzing' = TRUE
    /\ analysisResult' = Absent
    /\ analysis' = Present("pending")
    /\ UNCHANGED <<tableVars, mcpVars>>

\* analyzeConceptSet resolves: try, then finally.
AnalyzeResolves(result) ==
    /\ analysis = Present("pending")
    /\ analysisResult' = Present(result)
    /\ isAnalyzing' = FALSE
    /\ analysis' = Present("fulfilled")
    /\ UNCHANGED <<tableVars, mcpVars>>

\* A faulty variant of AnalyzeRejects below: without the finally block.
AnalyzeRejectsStillAnalyzing ==
    /\ analysis = Present("pending")
    /\ analysisResult' = Present(NetworkError)
    /\ analysis' = Present("rejected")
    /\ UNCHANGED <<isAnalyzing, tableVars, mcpVars>>

\* analyzeConceptSet rejects: catch, then finally.
AnalyzeRejects ==
    /\ analysis = Present("pending")
    /\ analysisResult' = Present(NetworkError)
    /\ isAnalyzing' = FALSE
    /\ analysis' = Present("rejected")
    /\ UNCHANGED <<tableVars, mcpVars>>

NextSets ==
    \/ handleAnalyze
    \/ \E result \in AnalysisResults : AnalyzeResolves(result)
    \/ AnalyzeRejects

SpecSets == Init /\ [][NextSets]_vars

\* The request of analyzeConceptSet ends: with a response, or with an error
\* of the HTTP client.
AnalyzeSettles ==
    \/ \E result \in AnalysisResults : AnalyzeResolves(result)
    \/ AnalyzeRejects

SpecSetsFair == Init /\ [][NextSets]_vars /\ WF_vars(AnalyzeSettles)

----------------------------------------------------------------------------
(* The properties.  What the contract says of a child, a group and a leaf  *)
(* is written here from its words, apart from the operators above.         *)

IsGroup(row) == IsPresent(row.children)
IsLeaf(row) == ~IsPresent(row.children)
Kids(row) == Get(row.children)

\* No field of the filter state has a selection.
NoSelection(filters) == \A f \in FieldSet : ~HasSelection(filters, f)

\* AND across the fields, OR within a field.
Matches(child, filters) ==
    \A f \in FieldSet :
        HasSelection(filters, f) =>
            /\ Len(child[f]) > 0
            /\ \E k \in 1..Len(Get(filters[f])) :
                   Get(filters[f])[k] = child[f][1]

MatchingKids(row, filters) ==
    SelectSeq(Kids(row), LAMBDA child : Matches(child, filters))

\* The table renders the row.
Rendered(row) ==
    \E j \in 1..Len(TableRows(selected, filteredInfo)) :
        TableRows(selected, filteredInfo)[j] = row

\* Some search has been fulfilled and the filterData effect has run.
Loaded ==
    /\ ~effectPending
    /\ \E i \in 1..Len(promises) : promises[i].state = "fulfilled"

\* C1: with no selection in any field, once the filterData effect has run
\* the rows of selected are the rows of originalData: same length, same
\* order, no group collapsed, no children dropped, groups of no or one child
\* included.
C1_RoundTrip ==
    (~effectPending /\ NoSelection(currentFilters)) => selected = originalData

C1_Witness ==
    /\ Loaded
    /\ NoSelection(currentFilters)
    /\ selected = originalData
    /\ \E i, j \in 1..Len(originalData) :
           /\ IsGroup(originalData[i]) /\ Len(Kids(originalData[i])) = 1
           /\ IsGroup(originalData[j]) /\ Len(Kids(originalData[j])) > 1

\* C2 as stated: for a group of any size of which exactly one child matches
\* the filter state, filterData puts at its position a row without children
\* that has the concept_id of that child.
C2_CollapseAnyGroup ==
    ~effectPending =>
        \A i \in 1..Len(originalData) :
            (/\ IsGroup(originalData[i])
             /\ Len(MatchingKids(originalData[i], currentFilters)) = 1)
            => /\ IsLeaf(selected[i])
               /\ selected[i].concept_id =
                      MatchingKids(originalData[i], currentFilters)[1].concept_id

\* C2 amended: the same for a group of at least two children; a group of
\* exactly one child stays a group, whether or not the child matches.
C2_CollapseCorrectness ==
    ~effectPending =>
        \A i \in 1..Len(originalData) :
            /\ (/\ IsGroup(originalData[i])
                /\ Len(Kids(originalData[i])) >= 2
                /\ Len(MatchingKids(originalData[i], currentFilters)) = 1)
               => /\ IsLeaf(selected[i])
                  /\ selected[i].concept_id =
                         MatchingKids(originalData[i], currentFilters)[1].concept_id
            /\ (IsGroup(originalData[i]) /\ Len(Kids(originalData[i])) = 1)
               => IsGroup(selected[i])

C2_Witness ==
    /\ Loaded
    /\ \E i \in 1..Len(originalData) :
           /\ IsGroup(originalData[i])
           /\ Len(Kids(originalData[i])) >= 2
           /\ Len(MatchingKids(originalData[i], currentFilters)) = 1
           /\ IsLeaf(selected[i])

\* C3 as stated: once every search has resolved and the one issued last was
\* fulfilled, originalData is a response to the search term issued last and
\* filterOptions are the options of that response.
C3_LastSearchWins ==
    (/\ Settled
     /\ ~effectPending
     /\ promises[Len(promises)].state = "fulfilled")
    => /\ originalData \in SearchResults(searchTerm)
       /\ filterOptions = FilterOptionsOf(originalData)

\* C4 as stated: the step in which a search is fulfilled leaves no selection
\* in currentFilters and filteredInfo, and filterOptions computed from the
\* new originalData.
C4_SearchResetsFilters ==
    [][(\E i \in 1..Len(promises) :
            Pending(i) /\ promises'[i].state = "fulfilled")
       => /\ NoSelection(currentFilters')
          /\ NoSelection(filteredInfo')
          /\ filterOptions' = FilterOptionsOf(originalData')]_vars

\* C5: the clear filters button leaves no selection and sets selected to
\* originalData, and the filterData effect that follows leaves selected
\* equal to originalData.
C5_ClearRestores ==
    [][/\ modifiedClearFilters
          => /\ NoSelection(filteredInfo') /\ NoSelection(currentFilters')
             /\ selected' = originalData'
             /\ effectPending'
       /\ (FilterDataEffect /\ NoSelection(currentFilters))
          => selected' = originalData']_vars

C5_Witness ==
    /\ Loaded
    /\ hasActiveFilters
    /\ ENABLED modifiedClearFilters
    /\ \E i \in 1..Len(originalData) :
           /\ IsGroup(originalData[i])
           /\ selected[i] # originalData[i]

LeafPassesColumns(leaf, info) ==
    \A f \in FieldSet :
        HasSelection(info, f) =>
            \E k \in 1..Len(Get(info[f])) :
                IF f = "concept_class_id"
                THEN StringIncludes(leaf[f][1], Get(info[f])[k])
                ELSE leaf[f][1] = Get(info[f])[k]

\* C7 as stated: every top-level leaf of originalData is in selected
\* unchanged and is rendered, in every filter state.
C7_LeavesAlwaysRendered ==
    ~effectPending =>
        \A i \in 1..Len(originalData) :
            IsLeaf(originalData[i])
            => /\ selected[i] = originalData[i]
               /\ Rendered(selected[i])

\* C7 amended: every top-level leaf of originalData is in selected unchanged
\* at its position; it is rendered exactly when it passes the columns'
\* filters.
C7_LeavesPassedThrough ==
    ~effectPending =>
        \A i \in 1..Len(originalData) :
            IsLeaf(originalData[i])
            => /\ selected[i] = originalData[i]
               /\ Rendered(selected[i])
                  <=> LeafPassesColumns(originalData[i], filteredInfo)

C7_Witness ==
    /\ Loaded
    /\ hasActiveFilters
    /\ \E i \in 1..Len(originalData) :
           /\ IsLeaf(originalData[i])
           /\ selected[i] = originalData[i]
           /\ ~Rendered(selected[i])

\* C8 as stated: a group of any size of which no child or at least two
\* children match becomes the group with exactly the matching children, in
\* their order.
C8_GroupPersistsAnySize ==
    ~effectPending =>
        \A i \in 1..Len(originalData) :
            (/\ IsGroup(originalData[i])
             /\ Len(MatchingKids(originalData[i], currentFilters)) # 1)
            => selected[i] =
                   [originalData[i] EXCEPT !.children =
                        Present(MatchingKids(originalData[i], currentFilters))]

\* C8 amended: the same for a group of at least two children; a group of
\* no or one child is in selected unchanged.
C8_GroupPersists ==
    ~effectPending =>
        \A i \in 1..Len(originalData) :
            /\ (/\ IsGroup(originalData[i])
                /\ Len(Kids(originalData[i])) >= 2
                /\ Len(MatchingKids(originalData[i], currentFilters)) # 1)
               => selected[i] =
                      [originalData[i] EXCEPT !.children =
                           Present(MatchingKids(originalData[i], currentFilters))]
            /\ (IsGroup(originalData[i]) /\ Len(Kids(originalData[i])) <= 1)
               => selected[i] = originalData[i]

C8_Witness ==
    /\ Loaded
    /\ ~NoSelection(currentFilters)
    /\ \E i \in 1..Len(originalData) :
           /\ IsGroup(originalData[i])
           /\ Len(Kids(originalData[i])) = 3
           /\ Len(MatchingKids(originalData[i], currentFilters)) = 2
           /\ IsGroup(selected[i])
           /\ Len(Kids(selected[i])) = 2

\* C9: the callback of applyFiltersToChildren accepts a concept exactly when,
\* for every field with a selection, the concept's value is one of the
\* selected values.
C9_Predicate ==
    \A q \in Terms :
        \A k \in 1..Len(Concepts(q)) :
            ChildAccepted(Concepts(q)[k], currentFilters)
            <=> Matches(Concepts(q)[k], currentFilters)

C9_Witness ==
    /\ Loaded
    /\ \E i \in 1..Len(originalData) :
           /\ IsGroup(originalData[i])
           /\ Len(Kids(originalData[i])) >= 2
           /\ \E k \in 1..Len(Kids(originalData[i])) :
                  \E f, g \in FieldSet :
                      /\ HasSelection(currentFilters, f)
                      /\ HasSelection(currentFilters, g)
                      /\ Includes(Get(currentFilters[f]),
                                  First(Kids(originalData[i])[k][f]))
                      /\ ~Includes(Get(currentFilters[g]),
                                   First(Kids(originalData[i])[k][g]))
                      /\ ~ChildAccepted(Kids(originalData[i])[k], currentFilters)

\* C10: a step changes originalData only when it fulfils a search.
C10_OriginalDataFrame ==
    [][originalData' # originalData
       => \E i \in 1..Len(promises) :
              Pending(i) /\ promises'[i].state = "fulfilled"]_vars

C10_Witness ==
    /\ Loaded
    /\ ~NoSelection(currentFilters)
    /\ \E i \in 1..Len(originalData) :
           /\ IsGroup(originalData[i])
           /\ IsLeaf(selected[i])

\* C11: filterOptions is the index of originalData as it is, unfiltered, in
\* every state: filter changes, page changes and clears leave it alone.
C11_IndexOfOriginal == filterOptions = FilterOptionsOf(originalData)

C11_Witness ==
    /\ Loaded
    /\ ~NoSelection(currentFilters)
    /\ selected # originalData
    /\ filterOptions = FilterOptionsOf(originalData)
    /\ filterOptions # FilterOptionsOf(selected)

\* The leaves and the children of the groups of a row list, in order.
RECURSIVE Members(_)
Members(rows) ==
    IF Len(rows) = 0 THEN <<>>
    ELSE (IF IsGroup(rows[1]) THEN Kids(rows[1]) ELSE <<rows[1]>>)
         \o Members(Tail(rows))

\* The concept has a value for the field, and not the empty string.
HasValue(concept, field) ==
    Len(concept[field]) > 0 /\ concept[field][1] # <<>>

\* C12 as stated: for every field the options are, one each, the distinct
\* non-empty values of the leaves and children of originalData, each with
\* the number of leaves and children that have it; a missing or empty value
\* gives no option.
C12_IndexEntries ==
    \A f \in FieldSet :
        LET menu == MenuOf(filterOptions, f)
            members == Members(originalData)
        IN /\ {menu[i].value : i \in 1..Len(menu)}
                = {members[k][f][1] :
                       k \in {j \in 1..Len(members) : HasValue(members[j], f)}}
           /\ \A i, j \in 1..Len(menu) :
                  menu[i].value = menu[j].value => i = j
           /\ \A i \in 1..Len(menu) :
                  /\ menu[i].text.key = menu[i].value
                  /\ menu[i].text.count =
                         Len(SelectSeq(members,
                                 LAMBDA c : HasValue(c, f)
                                            /\ c[f][1] = menu[i].value))

\* C13: the step in which a search is rejected leaves originalData,
\* selected, filterOptions, filteredInfo and currentFilters as they were,
\* sets loading to false and raises one error notification.
C13_RejectionKeepsView ==
    [][(\E i \in 1..Len(promises) :
            Pending(i) /\ promises'[i].state = "rejected")
       => /\ originalData' = originalData
          /\ selected' = selected
          /\ filterOptions' = filterOptions
          /\ filteredInfo' = filteredInfo
          /\ currentFilters' = currentFilters
          /\ loading' = FALSE
          /\ notifications' = notifications + 1]_vars

C13_Witness ==
    /\ \E i \in 1..Len(promises) : promises[i].state = "rejected"
    /\ Len(originalData) > 0
    /\ selected # originalData
    /\ ~NoSelection(currentFilters)
    /\ notifications = 1
    /\ loading = FALSE

\* C14: once the filterData effect has run, selected is the projection of
\* originalData under currentFilters as they are now, whatever filter
\* changes, clears and page changes came before.
C14_NoIncrementalState ==
    ~effectPending => selected = filterData(originalData, currentFilters)

\* Two columns hold keys, which takes two filter changes.
C14_Witness ==
    /\ Loaded
    /\ selected # originalData
    /\ \E f, g \in FieldSet :
           /\ f # g
           /\ HasSelection(currentFilters, f)
           /\ HasSelection(currentFilters, g)

\* C15: projecting the projection of originalData again, under the same
\* filter state, gives the same rows.
C15_Idempotent ==
    filterData(filterData(originalData, currentFilters), currentFilters)
        = filterData(originalData, currentFilters)

C15_Witness ==
    /\ Loaded
    /\ ~NoSelection(currentFilters)
    /\ filterData(selected, currentFilters) = selected
    /\ \E i \in 1..Len(originalData) :
           /\ IsGroup(originalData[i])
           /\ IsGroup(selected[i])
           /\ Len(Kids(selected[i])) = 2
           /\ Len(Kids(originalData[i])) = 3

\* C16: a step that gives a selection to a field that had none, and leaves
\* the other fields and the data alone, does not raise the number of
\* accepted children of any group.
C16_CountMonotone ==
    [][(/\ originalData' = originalData
        /\ \E f \in FieldSet :
               /\ ~HasSelection(currentFilters, f)
               /\ HasSelection(currentFilters', f)
               /\ \A g \in FieldSet \ {f} :
                      currentFilters'[g] = currentFilters[g])
       => \A i \in 1..Len(originalData) :
              IsGroup(originalData[i])
              => Len(applyFiltersToChildren(Kids(originalData[i]),
                                            currentFilters'))
                 <= Len(applyFiltersToChildren(Kids(originalData[i]),
                                               currentFilters))]_vars

\* A second field has a selection and with it a group has fewer accepted
\* children than without.
C16_Witness ==
    /\ Loaded
    /\ \E f, g \in FieldSet :
           /\ f # g
           /\ HasSelection(currentFilters, f)
           /\ HasSelection(currentFilters, g)
           /\ \E i \in 1..Len(originalData) :
                  /\ IsGroup(originalData[i])
                  /\ Len(applyFiltersToChildren(Kids(originalData[i]),
                                                currentFilters))
                     < Len(applyFiltersToChildren(Kids(originalData[i]),
                               [currentFilters EXCEPT ![f] = Absent]))

\* The values of a field over a sequence of rows that are not empty, each
\* once, in the order of their first occurrence.
DistinctValues(rows, field) ==
    LET at == SelectSeq([i \in 1..Len(rows) |-> i],
                        LAMBDA i :
                            /\ Len(rows[i][field]) > 0
                            /\ rows[i][field][1] # <<>>
                            /\ \A j \in 1..(i - 1) :
                                   Len(rows[j][field]) > 0
                                   => rows[j][field][1] # rows[i][field][1])
    IN [k \in 1..Len(at) |-> rows[at[k]][field][1]]

\* C17 as stated: in both tables, the cell of a group row of which exactly
\* one child is currently filtered in is the plain value of that child, and
\* the cell of a leaf row is the single value of the leaf.  ConceptTableCore
\* filters no children, so its filtered children are the row's children.
C17_SingleChildScalar ==
    \A i \in 1..Len(selected) : \A f \in FieldSet :
        LET row == selected[i]
        IN /\ (IsGroup(row) /\ Len(MatchingKids(row, currentFilters)) = 1)
              => renderCellValue(row, f) =
                     TextCell(Present(MatchingKids(row, currentFilters)[1][f][1]))
           /\ (IsGroup(row) /\ Len(Kids(row)) = 1)
              => CoreRenderCellValue(row, f) =
                     TextCell(Present(Kids(row)[1][f][1]))
           /\ IsLeaf(row)
              => /\ renderCellValue(row, f) = ArrayCell(<<row[f][1]>>)
                 /\ CoreRenderCellValue(row, f) = TextCell(Present(row[f][1]))

\* C17 amended: in ConceptTable the cell of a group row of which the filter
\* state accepts exactly one child is the plain value of that child, and the
\* cell of a leaf row is the leaf's array of one value.  In ConceptTableCore
\* the cell of a group row is always a row of tags, one per distinct value of
\* its children, also when the group has one child; the cell of a leaf row
\* is the plain value of the leaf.
C17_RenderScalar ==
    \A i \in 1..Len(selected) : \A f \in FieldSet :
        LET row == selected[i]
        IN /\ (IsGroup(row) /\ Len(MatchingKids(row, currentFilters)) = 1)
              => renderCellValue(row, f) =
                     TextCell(Present(MatchingKids(row, currentFilters)[1][f][1]))
           /\ IsGroup(row)
              => CoreRenderCellValue(row, f) =
                     TagsCell(DistinctValues(Kids(row), f))
           /\ IsLeaf(row)
              => /\ renderCellValue(row, f) = ArrayCell(<<row[f][1]>>)
                 /\ CoreRenderCellValue(row, f) = TextCell(Present(row[f][1]))

\* The filter state accepts one child of a displayed group of two children
\* or more, next to a group of one child.
C17_Witness ==
    /\ HasSelection(currentFilters, "vocabulary_id")
    /\ \E i \in 1..Len(selected) :
           /\ IsGroup(selected[i])
           /\ Len(Kids(selected[i])) >= 2
           /\ Len(MatchingKids(selected[i], currentFilters)) = 1
           /\ renderCellValue(selected[i], "vocabulary_id").kind = "text"
    /\ \E i \in 1..Len(selected) :
           /\ IsGroup(selected[i])
           /\ Len(Kids(selected[i])) = 1
           /\ CoreRenderCellValue(selected[i], "vocabulary_id").kind = "tags"

\* C18: the tags of a field over a sequence of rows are the values of the
\* field that are not empty, each once, in the order of their first
\* occurrence, and none when there are no rows; the cell of a group row of
\* which the filter state accepts no child or at least two is the tags over
\* the accepted children.
C18_TagDedup ==
    \A i \in 1..Len(selected) : \A f \in FieldSet :
        IsGroup(selected[i]) =>
            LET filtered == MatchingKids(selected[i], currentFilters)
            IN /\ renderTagsForField(Kids(selected[i]), f) =
                      TagsCell(DistinctValues(Kids(selected[i]), f))
               /\ renderTagsForField(<<>>, f) = TagsCell(<<>>)
               /\ Len(filtered) # 1
                  => renderCellValue(selected[i], f) =
                         TagsCell(DistinctValues(filtered, f))

\* A group of three accepted children is displayed: two of them share the
\* class, one has no vocabulary and one has the empty validity.
C18_Witness ==
    \E i \in 1..Len(selected) :
        /\ IsGroup(selected[i])
        /\ Len(MatchingKids(selected[i], currentFilters)) = 3
        /\ Len(renderCellValue(selected[i], "concept_class_id").value) = 2
        /\ Len(renderCellValue(selected[i], "vocabulary_id").value) = 1
        /\ Len(renderCellValue(selected[i], "invalid_reason").value) = 1

\* C19 as stated: after handleChange has fired for a change of a filter or
\* of the sorter, currentPage is 1, whatever page was shown before.
C19_FilterOrSortResetsPage ==
    [][((\E field \in FieldSet :
             \E keys \in MenuKeys(MenuOf(filterOptions, field)) :
                 FilterChange(field, keys))
        \/ SortChange)
       => currentPage' = 1]_vars

\* C19 amended: after handleChange has fired for a change of a filter,
\* currentPage is 1, whatever page was shown before; after it has fired for
\* a change of the sorter, and after the "clear filters" button,
\* currentPage is the page that was shown before.
C19_FilterResetsPage ==
    [][/\ (\E field \in FieldSet :
               \E keys \in MenuKeys(MenuOf(filterOptions, field)) :
                   FilterChange(field, keys))
          => currentPage' = 1
       /\ (SortChange \/ modifiedClearFilters)
          => currentPage' = currentPage]_vars

\* A filter has just been confirmed on a table of more than one page: the
\* first page is the current one.
C19_Witness ==
    /\ effectPending
    /\ hasActiveFilters
    /\ selected # filterData(originalData, currentFilters)
    /\ PageCount(TableRows(originalData, NoFilters)) >= 2
    /\ currentPage = 1

\* The rows of a sequence that have at least one value for the field.
WithValues(rows, field) == SelectSeq(rows, LAMBDA r : Len(r[field]) > 0)

\* C20 as stated: a leaf or child that has zero values for a field is
\* treated as having an empty value.  No selection on the field accepts it,
\* the tags of a group are the tags of its other children, and the options
\* of the field are the options of the other leaves and children: every
\* option has the value of one of them, and the counts add up to their
\* number.
C20_ZeroValuesContributeNothing ==
    \A f \in FieldSet :
        LET menu == MenuOf(filterOptions, f)
            members == Members(originalData)
            counts == [i \in 1..Len(menu) |-> menu[i].text.count]
        IN /\ \A i \in 1..Len(originalData) :
                  IsGroup(originalData[i]) =>
                      LET kids == Kids(originalData[i])
                          accepted == applyFiltersToChildren(kids, currentFilters)
                      IN /\ HasSelection(currentFilters, f)
                            => \A k \in 1..Len(accepted) : Len(accepted[k][f]) > 0
                         /\ renderTagsForField(kids, f) =
                                renderTagsForField(WithValues(kids, f), f)
           /\ \A i \in 1..Len(menu) :
                  \E k \in 1..Len(members) :
                      /\ Len(members[k][f]) > 0
                      /\ members[k][f][1] = menu[i].value
           /\ \A i \in 1..Len(menu) :
                  counts[i] = Len(SelectSeq(WithValues(members, f),
                                      LAMBDA c : c[f][1] = menu[i].value))

\* The tools/call request being handled is for the tool of that name and
\* has arguments.
CallOf(name) ==
    /\ IsPresent(mcpRequest)
    /\ Get(mcpRequest).method = "tools/call"
    /\ Get(mcpRequest).name = name
    /\ IsPresent(Get(mcpRequest).args)

\* The arguments of the request being handled.
Args == Get(Get(mcpRequest).args)

\* C21 as stated: the tool list names autocomplete_concepts, and a call to
\* it with a query of 1 to 100 characters is forwarded to the REST API and
\* not answered with MethodNotFound or InvalidParams.
C21_AutocompleteProvided ==
    /\ (IsPresent(mcpResponse) /\ Get(mcpResponse).kind = "tools")
       => \E i \in 1..Len(ListedTools) : ListedTools[i] = "autocomplete_concepts"
    /\ (/\ CallOf("autocomplete_concepts")
        /\ AutocompleteInputSchema(Get(mcpRequest).args))
       => /\ IsPresent(apiRequest)
          /\ IsPresent(mcpResponse)
             => Get(mcpResponse).code \notin {"MethodNotFound", "InvalidParams"}

\* The schema the README gives for the parameters of a tool the server
\* dispatches.
ValidParams(name, args) ==
    CASE name = "search_concepts" -> SearchInputSchema(args)
      [] name = "expand_concept_hierarchy" -> ExpandConceptInputSchema(args)
      [] OTHER -> ConceptIdInputSchema(args)

Dispatched(name) == \E i \in 1..Len(ListedTools) : ListedTools[i] = name

\* C22: a tools/call request ends with a result or with an MCP error, never
\* with another error.  An unknown tool name is answered MethodNotFound and
\* parameters that fail validation InvalidParams, both without any request
\* to the REST API; an error after the request was forwarded (an HTTP
\* status, no answer, a body the client cannot read) is InternalError.
C22_ErrorCodes ==
    (IsPresent(mcpRequest) /\ Get(mcpRequest).method = "tools/call") =>
        LET name == Get(mcpRequest).name
            args == Get(mcpRequest).args
        IN /\ ~Dispatched(name)
              => /\ ~IsPresent(apiRequest)
                 /\ mcpResponse = Present(McpError("MethodNotFound"))
           /\ (Dispatched(name) /\ ~ValidParams(name, args))
              => /\ ~IsPresent(apiRequest)
                 /\ mcpResponse = Present(McpError("InvalidParams"))
           /\ (Dispatched(name) /\ ValidParams(name, args))
              => /\ IsPresent(apiRequest)
                 /\ IsPresent(mcpResponse)
                    => Get(mcpResponse) \in {ToolResult, McpError("InternalError")}
           /\ IsPresent(mcpResponse) => Get(mcpResponse).mcp

\* A search with a query of 501 characters was answered InvalidParams and
\* nothing was forwarded.
C22_Witness ==
    /\ CallOf("search_concepts")
    /\ Args.query = Text(501)
    /\ ~IsPresent(apiRequest)
    /\ mcpResponse = Present(McpError("InvalidParams"))

\* The value is a whole number from lo to hi.
WholeIn(x, lo, hi) ==
    /\ Get(x).t = "number"
    /\ Get(x).int
    /\ Get(x).v \in lo..hi

\* C23: expand_concept_hierarchy with a positive whole id and levels that
\* are each omitted or whole numbers from 0 to 10 is forwarded with that id,
\* with childLevels 5 when omitted and parentLevels 0 when omitted, and with
\* a given level, 0 included, as given; with any other id or level it is
\* answered InvalidParams and not forwarded.
C23_ExpandLevels ==
    CallOf("expand_concept_hierarchy") =>
        LET id == Args.id
            child == Args.childLevels
            parent == Args.parentLevels
            accepted ==
                /\ IsPresent(id)
                /\ Get(id).t = "number" /\ Get(id).int /\ Get(id).v >= 1
                /\ IsPresent(child) => WholeIn(child, 0, 10)
                /\ IsPresent(parent) => WholeIn(parent, 0, 10)
        IN IF accepted
           THEN apiRequest =
                    Present([op |-> "expand",
                             id |-> Present(Get(id).v),
                             childLevels |->
                                 Present(IF IsPresent(child) THEN Get(child).v
                                                             ELSE 5),
                             parentLevels |->
                                 Present(IF IsPresent(parent) THEN Get(parent).v
                                                              ELSE 0),
                             limit |-> Absent])
           ELSE /\ ~IsPresent(apiRequest)
                /\ mcpResponse = Present(McpError("InvalidParams"))

\* A call with childLevels 0 and no parentLevels was forwarded with 0 and 0
\* and answered with a result.
C23_Witness ==
    /\ CallOf("expand_concept_hierarchy")
    /\ Args.childLevels = Number(0)
    /\ Args.parentLevels = Absent
    /\ IsPresent(apiRequest)
    /\ Get(apiRequest).childLevels = Present(0)
    /\ Get(apiRequest).parentLevels = Present(0)
    /\ mcpResponse = Present(ToolResult)

\* The recommendations of the analysis result on display.
HasRecommendations ==
    IsPresent(analysisResult) /\ IsPresent(Get(analysisResult).recommendations)

Recommendations == Get(Get(analysisResult).recommendations)

\* C24: the rows made of the recommendations on display are as many as the
\* recommendations and in their order; the row at a position has the
\* concept_id, the name and the score of the recommendation at that
\* position, no children, and exactly one value in each of the five
\* filterable fields.
C24_BoundaryTransform ==
    HasRecommendations =>
        LET rows == transformedData(Recommendations)
        IN /\ Len(rows) = Len(Recommendations)
           /\ \A i \in 1..Len(rows) :
                  /\ rows[i].concept_id = Present(Recommendations[i].concept_id)
                  /\ rows[i].concept_name = Recommendations[i].concept_name
                  /\ rows[i].score = Present(Recommendations[i].similarity_score)
                  /\ IsLeaf(rows[i])
                  /\ \A f \in FieldSet : Len(rows[i][f]) = 1
                  /\ rows[i].vocabulary_id[1] =
                         Str(Recommendations[i].vocabulary_id)

\* Two recommendations are on display, the first with an invalid_reason,
\* the second with none.
C24_Witness ==
    /\ HasRecommendations
    /\ Len(Recommendations) = 2
    /\ IsPresent(Recommendations[1].invalid_reason)
    /\ ~IsPresent(Recommendations[2].invalid_reason)
    /\ Len(transformedData(Recommendations)) = 2

\* C25 as stated: once the filterData effect has run, every child of every
\* group row of selected matches the filter state, whatever the number of
\* children the group has in originalData.
C25_ChildrenMatchAnyGroup ==
    ~effectPending =>
        \A i \in 1..Len(selected) :
            IsGroup(selected[i]) =>
                \A k \in 1..Len(Kids(selected[i])) :
                    Matches(Kids(selected[i])[k], currentFilters)

\* C25 amended: once the filterData effect has run, every child of a group
\* row of selected matches the filter state when the group has no child or
\* at least two children in originalData; a group of exactly one child is
\* in selected as it is in originalData, with its child, whether the child
\* matches or not.
C25_ChildrenMatch ==
    ~effectPending =>
        \A i \in 1..Len(selected) :
            IsGroup(selected[i]) =>
                IF IsGroup(originalData[i]) /\ Len(Kids(originalData[i])) = 1
                THEN selected[i] = originalData[i]
                ELSE \A k \in 1..Len(Kids(selected[i])) :
                         Matches(Kids(selected[i])[k], currentFilters)

\* A group of two children, both matching, next to a group of one child
\* that does not match and is displayed all the same.
C25_Witness ==
    /\ Loaded
    /\ ~NoSelection(currentFilters)
    /\ \E i \in 1..Len(selected) :
           /\ IsGroup(selected[i])
           /\ Len(Kids(selected[i])) = 2
           /\ Len(MatchingKids(selected[i], currentFilters)) = 2
    /\ \E i \in 1..Len(selected) :
           /\ IsGroup(selected[i])
           /\ Len(Kids(selected[i])) = 1
           /\ Len(MatchingKids(selected[i], currentFilters)) = 0

\* The children of a group at the positions S, in their order.
KidsAt(row, S) ==
    LET at == SelectSeq([k \in 1..Len(Kids(row)) |-> k], LAMBDA k : k \in S)
    IN [j \in 1..Len(at) |-> Kids(row)[at[j]]]

\* C26: in every state selected has as many rows as originalData, and the
\* row at a position is the original row at that position, or that group
\* with some of its children in their order, or one of its children; once
\* the filterData effect has run, a group of which no child matches is still
\* a group row at its position.
C26_RowsPreserved ==
    /\ Len(selected) = Len(originalData)
    /\ \A i \in 1..Len(selected) :
           LET o == originalData[i]
               r == selected[i]
           IN /\ \/ r = o
                 \/ /\ IsGroup(o) /\ IsGroup(r)
                    /\ [r EXCEPT !.children = o.children] = o
                    /\ \E S \in SUBSET (1..Len(Kids(o))) :
                           Kids(r) = KidsAt(o, S)
                 \/ /\ IsGroup(o)
                    /\ \E k \in 1..Len(Kids(o)) : r = Kids(o)[k]
              /\ (/\ ~effectPending
                  /\ IsGroup(o)
                  /\ Len(MatchingKids(o, currentFilters)) = 0)
                 => IsGroup(r)

\* A group of two children, of which none matches, is displayed without
\* children next to a second row.
C26_Witness ==
    /\ Loaded
    /\ Len(selected) = 2
    /\ \E i \in 1..Len(selected) :
           /\ IsGroup(selected[i])
           /\ Len(Kids(selected[i])) = 0
           /\ Len(Kids(originalData[i])) >= 2

\* C27 as stated: loading is true in the states where the promise of some
\* search is pending, and in those only.
C27_LoadingTracksSearches ==
    loading <=> \E i \in 1..Len(promises) : Pending(i)

\* The values a field is constrained to, as a set; none when the field has
\* no selection.
Selection(filters, field) ==
    IF IsPresent(filters[field])
    THEN {Get(filters[field])[k] : k \in 1..Len(Get(filters[field]))}
    ELSE {}

\* C28 as stated: for each of the five fields the values of currentFilters
\* are, as a set, the values of filteredInfo, and a field of which
\* filteredInfo holds null, undefined or an empty list has no constraint in
\* currentFilters.
C28_RepresentationsAgree ==
    \A f \in FieldSet :
        /\ Selection(currentFilters, f) = Selection(filteredInfo, f)
        /\ ~HasSelection(filteredInfo, f) => ~HasSelection(currentFilters, f)

\* C29: the step in which handleAnalyze is called sets isAnalyzing and
\* makes analysisResult null; the step in which analyzeConceptSet rejects
\* leaves a result that is not valid, with one error and no warning; and
\* whenever isAnalyzing is set, a state follows in which it is not and
\* analysisResult is not null.
C29_AnalysisFinishes ==
    /\ [][(analysis # Present("pending") /\ analysis' = Present("pending"))
          => (isAnalyzing' /\ analysisResult' = Absent)]_vars
    /\ [][(analysis = Present("pending") /\ analysis' = Present("rejected"))
          => /\ ~isAnalyzing'
             /\ IsPresent(analysisResult')
             /\ ~Get(analysisResult').valid
             /\ Len(Get(analysisResult').errors) = 1
             /\ Len(Get(analysisResult').warnings) = 0]_vars
    /\ isAnalyzing ~> (~isAnalyzing /\ IsPresent(analysisResult))

\* An analysis was rejected: the page shows the error result and the
\* button is free again.
C29_Witness ==
    /\ analysis = Present("rejected")
    /\ ~isAnalyzing
    /\ analysisResult = Present(NetworkError)

\* C30 as stated: over the rows the table sorts, two rows that both have a
\* score compare as their scores do, and comparing equal is transitive: no
\* row compares equal to two rows that do not compare equal to each other.
C30_ScoreOrderConsistent ==
    LET rows == TableRows(selected, filteredInfo)
    IN \A i, j, k \in 1..Len(rows) :
           /\ (IsPresent(rows[i].score) /\ IsPresent(rows[j].score))
              => /\ SortCompare(rows[i], rows[j]) < 0
                        <=> Get(rows[i].score) < Get(rows[j].score)
                 /\ SortCompare(rows[i], rows[j]) = 0
                        <=> Get(rows[i].score) = Get(rows[j].score)
           /\ (/\ SortCompare(rows[i], rows[j]) = 0
               /\ SortCompare(rows[j], rows[k]) = 0)
              => SortCompare(rows[i], rows[k]) = 0

====
